---- MODULE Spec2Model ----
(***************************************************************************)
(* Model of the video-stream-recorder ingestion core: the bbolt-backed     *)
(* segment store (database_store, database_last_5, database_get,           *)
(* database_worker), the FIFO dedup cache (FIFOCache) and the HLS fetch    *)
(* loop (HLSProcessor.fetchLoop / processSegments), plus the live manifest *)
(* handler (HTTPServer.handleLiveStream).                                  *)
(*                                                                         *)
(* Time is an integer count of nanoseconds, as time.Now().UnixNano().      *)
(* TLC's integers are 32 bits wide, so the number of nanoseconds in a      *)
(* second (10^9 in the program) is the model scale NanosPerSecond and the  *)
(* 64-bit key width is the model scale KeyBits; every formula of the code  *)
(* is kept as written over these scales.                                   *)
(***************************************************************************)
EXTENDS Integers, Sequences, FiniteSets, TLC

\* ------------------------------------------------------------------ bounds
NanosPerSecond == 10      \* model scale of the literal 1000000000
KeyBits == 24             \* model scale of the 64-bit key written by itob
StartClock == 1000000     \* UnixNano() when the process starts
MaxTicks == 1             \* clock advances explored
MaxSeq == 3               \* appends explored (bucket.NextSequence calls)
MaxTail == 1              \* largest -tail flag value explored besides 24
MaxPolls == 2             \* manifest fetches explored
MaxSegments == 2          \* longest media manifest explored
ProcessorCacheSize == 1   \* model scale of NewFIFOCache(100) in NewHLSProcessor
GlobalCacheSize == 2      \* model scale of NewFIFOCache(10), the package-level globalCache
MaxCap == 3               \* largest FIFOCache capacity explored
CalendarShift == 1000      \* model scale of the gap between a YYYYMMDDHHMMSS numeral and Unix seconds
MaxKept == 2               \* records left in db.db by an earlier run of the process
MaxLoops == 2              \* fetchLoop goroutines alive at once that are explored
MaxChain == 3             \* master playlists between the source and the media playlist
NumCallers == 3           \* goroutines calling into one FIFOCache at once

\* ------------------------------------------------------- program constants
Nanosecond == 1           \* time.Nanosecond
DefaultTail == 24         \* flag.Int("tail", 24, ...)
ScanLimit == 7            \* database_last_5: if n >= 7 { break }

VARIABLES
  now,        \* wall clock, time.Now().UnixNano()
  ticks,      \* number of clock advances so far (bounds the exploration)
  flagTail,   \* *flagTail, the -tail command line flag
  db,         \* bucket "main": key (itob of T) -> DatabaseItem
  seq,        \* the bucket's sequence counter (bucket.NextSequence)
  files,      \* names of the blobs present under ./files
  tx,         \* the write transaction of database_worker while it is open
  cache,      \* FIFOCache.cache: the set of keys of the map
  list,       \* FIFOCache.list: front (newest) first
  maxSize,    \* FIFOCache.maxSize
  running,    \* HLSProcessor.running
  loops,      \* number of fetchLoop goroutines that have not returned
  pc,         \* where the fetchLoop goroutine stands
  polls,      \* number of manifest fetches so far (bounds the exploration)
  mainurl,    \* fetchLoop's local mainurl
  playlist,   \* processSegments: playlist.Segments
  idx,        \* processSegments: position in playlist.Segments
  fetchurl,   \* processSegments: the resolved URI of the admitted segment
  item,       \* processSegments: the DatabaseItem of the admitted segment
  requests,   \* upstream log: segment URI -> number of GETs the loop sent for it
  appended,   \* log: segment URI -> number of records stored for it
  assigned,   \* log: the IDs database_store assigned, in the order of the calls
  failed,     \* log: the segment URIs whose download failed
  steady,     \* log: the URI at which the running fetchLoop first decoded a media playlist
  evictions,  \* log: segment URI -> number of times the cache dropped it
  callers,    \* goroutines inside FIFOCache methods: position, arguments, result
  mutex,      \* FIFOCache.mutex (sync.RWMutex): the writer and the readers holding it
  raced,      \* log: the keys for which two Set calls were in progress at once
  out         \* result of the last completed call (return value / response / log)

clockVars == <<now, ticks, flagTail>>

storeVars == <<db, seq, files, tx>>

cacheVars == <<cache, list, maxSize>>

loopVars == <<running, loops, pc, polls, mainurl, playlist, idx, fetchurl, item>>

logVars == <<requests, appended, assigned, evictions, steady, failed>>

callerVars == <<callers, mutex, raced>>

vars == <<now, ticks, flagTail, db, seq, files, tx, cache, list, maxSize,
          running, loops, pc, polls, mainurl, playlist, idx, fetchurl, item,
          requests, appended, assigned, evictions, steady, failed,
          callers, mutex, raced, out>>

\* ------------------------------------------------------------ pure helpers
Min(S) == CHOOSE x \in S : \A y \in S : x <= y

RECURSIVE Ascending(_)
\* the keys of a bucket in cursor order (bbolt iterates in byte order)
Ascending(S) == IF S = {} THEN <<>> ELSE <<Min(S)>> \o Ascending(S \ {Min(S)})

Reverse(s) == [i \in 1..Len(s) |-> s[Len(s) + 1 - i]]

\* itob: binary.BigEndian.PutUint64(b, uint64(v)); big-endian byte order of
\* the 8 bytes is the numeric order of the unsigned value, so a key is
\* modelled by that unsigned value (a negative int wraps around).
itob(v) == v % (2 ^ KeyBits)

\* the number of bytes of a key
KeyBytes == (KeyBits + 7) \div 8

\* binary.LittleEndian.PutUint64: least significant byte first
LittleEndianPutUint64(u) == [i \in 1..KeyBytes |-> (u \div (256 ^ (i - 1))) % 256]

\* binary.BigEndian.PutUint64(b, u): most significant byte first
BigEndianPutUint64(u) == [i \in 1..KeyBytes |-> (u \div (256 ^ (KeyBytes - i))) % 256]

\* itob as the bytes it returns: make([]byte, 8), PutUint64(b, uint64(v))
itobBytes(v) == BigEndianPutUint64(v % (2 ^ KeyBits))

\* bytes.Compare(a, b) < 0 for two slices of equal length
BytesLess(a, b) ==
  \E i \in 1..Len(a) : a[i] < b[i] /\ \A j \in 1..(i - 1) : a[j] = b[j]

\* DatabaseItem{ID, Name, Len, T}; the blob name "<T>.ts" is modelled by T
DatabaseItem(id, name, len, t) == [ID |-> id, Name |-> name, Len |-> len, T |-> t]

Durations == {2}

\* a Put that keeps the value a key already has
PutKeepingFirst(bucket, key, value) ==
  [k \in (DOMAIN bucket) \cup {key} |-> IF k \in DOMAIN bucket THEN bucket[k] ELSE value]

\* bucket.Put(key, value)
Put(bucket, key, value) ==
  [k \in (DOMAIN bucket) \cup {key} |-> IF k = key THEN value ELSE bucket[k]]

\* bucket.Delete(key)
Delete(bucket, key) == [k \in (DOMAIN bucket) \ {key} |-> bucket[k]]

EmptyBucket == [k \in {} |-> 0]


\* ------------------------------------------------------------ URLs, logs
\* a URL is a directory, a file name and a raw query; a reference (the URI
\* attribute of a variant or a segment) is absolute or relative to the
\* directory of the document that carries it
Url(dir, file, query) == [dir |-> dir, file |-> file, query |-> query]

Ref(abs, dir, file, query) == [abs |-> abs, dir |-> dir, file |-> file, query |-> query]

NoUrl == Url("", "", "")

NoItem == [ID |-> 0, Name |-> 0, Len |-> 0, T |-> 0]

\* (*url.URL).Parse(ref): ref resolved against the receiver; the result
\* carries the reference's own query
Parse(base, ref) ==
  IF ref.abs THEN Url(ref.dir, ref.file, ref.query)
  ELSE Url(base.dir, ref.file, ref.query)

\* counting logs: a function from the logged values to positive counts
EmptyBag == [x \in {} |-> 0]

Count(bag, x) == IF x \in DOMAIN bag THEN bag[x] ELSE 0

AddAll(bag, S) == [x \in (DOMAIN bag) \cup S |-> Count(bag, x) + (IF x \in S THEN 1 ELSE 0)]

\* ---------------------------------------------------------- segment store
\* a store that numbers a record by its position in the bucket
database_store_by_count(bucket, sq, it) ==
  LET ID == Cardinality(DOMAIN bucket) + 1
      stored == [it EXCEPT !.ID = ID]
  IN  [db |-> Put(bucket, itob(stored.T), stored), seq |-> ID, item |-> stored]

\* database_store: one Update transaction: NextSequence, then Put under
\* itob(int(item.T)); neither error is looked at.
database_store(bucket, sq, it) ==
  LET ID == sq + 1
      stored == [it EXCEPT !.ID = ID]
  IN  [db |-> Put(bucket, itob(stored.T), stored), seq |-> ID, item |-> stored]

\* database_last_5: walk back from cursor.Last() collecting at most ScanLimit
\* items into tmp (newest first), then copy tmp[len-1] .. tmp[1] into rt.
database_last_5(bucket) ==
  LET desc == Reverse(Ascending(DOMAIN bucket))
      n    == IF Len(desc) < ScanLimit THEN Len(desc) ELSE ScanLimit
      tmp  == [i \in 1..n |-> bucket[desc[i]]]
  IN  [j \in 1..(IF n = 0 THEN 0 ELSE n - 1) |-> tmp[n + 1 - j]]

\* strconv.Atoi on a request argument: an argument is either a decimal
\* number or not a number at all
NumArg(n) == [num |-> TRUE, val |-> n]

BadArg == [num |-> FALSE, val |-> 0]

Atoi(a) == [err |-> ~a.num, v |-> IF a.num THEN a.val ELSE 0]

RECURSIVE GetLoop(_, _, _, _, _)
\* the cursor loop of database_get: for k := Seek(start); k != nil; Next()
GetLoop(bucket, keys, i, end, rt) ==
  IF i > Len(keys) THEN rt
  ELSE IF keys[i] < end THEN rt
  ELSE GetLoop(bucket, keys, i + 1, end, Append(rt, bucket[keys[i]]))

\* database_get(s, l): nil when either argument does not parse
database_get(bucket, s, l) ==
  LET si == Atoi(s)
      li == Atoi(l)
      start == itob(si.v * NanosPerSecond)
      end   == itob(si.v + li.v * 60 * NanosPerSecond)
      keys  == Ascending({k \in DOMAIN bucket : k >= start})
  IN  IF si.err \/ li.err THEN <<>> ELSE GetLoop(bucket, keys, 1, end, <<>>)

\* os.RemoveAll("./files/<name>"): `stuck` holds the names whose deletion
\* fails; the call's result is not looked at
RemoveAll(fs, name, stuck) == IF name \in stuck THEN fs ELSE fs \ {name}

RECURSIVE WorkerLoopSkipping(_, _, _, _, _, _, _)
WorkerLoopSkipping(keys, i, bucket, fs, removed, current, stuck) ==
  IF i > Len(keys) THEN [db |-> bucket, files |-> fs, removed |-> removed]
  ELSE IF keys[i] < itob(current)
       THEN [db |-> bucket, files |-> fs, removed |-> removed]
       ELSE WorkerLoopSkipping(keys, i + 2, Delete(bucket, keys[i]),
                               RemoveAll(fs, bucket[keys[i]].Name, stuck),
                               Append(removed, bucket[keys[i]].Name), current,
                               stuck)

RECURSIVE WorkerLoopStoppingOnFailure(_, _, _, _, _, _, _)
WorkerLoopStoppingOnFailure(keys, i, bucket, fs, removed, current, stuck) ==
  IF i > Len(keys) THEN [db |-> bucket, files |-> fs, removed |-> removed]
  ELSE IF keys[i] < itob(current)
       THEN [db |-> bucket, files |-> fs, removed |-> removed]
       ELSE IF bucket[keys[i]].Name \in stuck
       THEN [db |-> bucket, files |-> fs, removed |-> removed]
       ELSE WorkerLoopStoppingOnFailure(keys, i + 1, Delete(bucket, keys[i]),
                       RemoveAll(fs, bucket[keys[i]].Name, stuck),
                       Append(removed, bucket[keys[i]].Name), current, stuck)

RECURSIVE WorkerLoop(_, _, _, _, _, _, _)
\* the cursor loop of database_worker's transaction. The cursor walks the
\* pages of the transaction's snapshot, so it visits every key that was in
\* the bucket when the loop started, in ascending order.
WorkerLoop(keys, i, bucket, fs, removed, current, stuck) ==
  IF i > Len(keys) THEN [db |-> bucket, files |-> fs, removed |-> removed]
  ELSE IF keys[i] < itob(current)
       THEN [db |-> bucket, files |-> fs, removed |-> removed]
       ELSE WorkerLoop(keys, i + 1, Delete(bucket, keys[i]),
                       RemoveAll(fs, bucket[keys[i]].Name, stuck),
                       Append(removed, bucket[keys[i]].Name), current, stuck)

\* the blob deletions that fail during one pass: any of the blobs
StuckSets(fs) == SUBSET fs

\* one pass of database_worker: the cutoff, then the Update transaction
Cutoff(t, tail) == t - tail * 60 * 60 * Nanosecond

database_worker_tx(bucket, fs, current, stuck) ==
  WorkerLoop(Ascending(DOMAIN bucket), 1, bucket, fs, <<>>, current, stuck)

\* handleLiveStream without a utc parameter
handleLiveStream(bucket) ==
  LET items == database_last_5(bucket)
  IN  IF Len(items) <= 0
      THEN [op |-> "live", status |-> 404, mediaSeq |-> 0, entries |-> <<>>]
      ELSE [op |-> "live", status |-> 200,
            mediaSeq |-> items[Len(items)].ID,
            entries |-> [i \in 1..Len(items) |-> items[i].Name]]

\* the database file: database_init creates the one bucket dbbucket and
\* nothing creates another
dbbucket == "main"

Database(bucket) == [name \in {dbbucket} |-> bucket]

NoBucket == [nil |-> TRUE]

\* tx.Bucket(name): nil when the file holds no bucket of that name
TxBucket(database, name) ==
  IF name \in DOMAIN database THEN database[name] ELSE NoBucket

\* database_count_segments: the key count of the bucket named "segments"
database_count_segments(bucket) ==
  LET b == TxBucket(Database(bucket), "segments")
  IN  IF b = NoBucket THEN 0 ELSE Cardinality(DOMAIN b)

\* a start argument in calendar form: the digits YYYYMMDDHHMMSS of the
\* instant `at` (Unix seconds); read as a decimal number the digits are
\* another number than `at`
CalendarArg(at) == [num |-> TRUE, val |-> at + CalendarShift, at |-> at]

\* time.Parse("20060102150405", s): only the calendar form parses
TimeParse(a) ==
  IF "at" \in DOMAIN a THEN [err |-> FALSE, unix |-> a.at]
                         ELSE [err |-> TRUE, unix |-> 0]

\* the manifest of a windowed request: header, one entry per item, ENDLIST
VodManifest(route, start, limit, items) ==
  [op |-> "vod", route |-> route, start |-> start, limit |-> limit,
   status |-> 200, body |-> TRUE,
   entries |-> [i \in 1..Len(items) |-> items[i].Name]]

\* handleVODPlaylist: /start/{start}/{limit}/vod.m3u8
handleVODPlaylist(bucket, start, limit) ==
  LET t == TimeParse(start)
  IN  IF t.err
      THEN [op |-> "vod", route |-> "vod.m3u8", start |-> start, limit |-> limit,
            status |-> 400, body |-> FALSE, entries |-> <<>>]
      ELSE VodManifest("vod.m3u8", start, limit,
                       database_get(bucket, NumArg(t.unix), limit))

\* handleVODStream -> handleVODRequest: /start/{start}/{limit}/stream.m3u8
handleVODRequest(bucket, start, limit) ==
  VodManifest("stream.m3u8", start, limit, database_get(bucket, start, limit))

\* ------------------------------------------------------------- FIFOCache
\* NewFIFOCache(maxSize)
NewFIFOCache(size) == [cache |-> {}, list |-> <<>>, maxSize |-> size]

RECURSIVE EvictNewest(_)
\* an eviction loop that removes list.Front() instead of list.Back()
EvictNewest(c) ==
  IF Len(c.list) > c.maxSize
  THEN EvictNewest([c EXCEPT !.cache = c.cache \ {c.list[1]},
                             !.list = SubSeq(c.list, 2, Len(c.list))])
  ELSE c

RECURSIVE EvictKeepsOne(_)
\* an eviction loop that never empties the list
EvictKeepsOne(c) ==
  IF Len(c.list) > c.maxSize /\ Len(c.list) > 1
  THEN EvictKeepsOne([c EXCEPT !.cache = c.cache \ {c.list[Len(c.list)]},
                               !.list = SubSeq(c.list, 1, Len(c.list) - 1)])
  ELSE c

RECURSIVE Evict(_)
\* for c.list.Len() > c.maxSize { delete(c.cache, Back()); c.list.Remove(Back()) }
Evict(c) ==
  IF Len(c.list) > c.maxSize
  THEN Evict([c EXCEPT !.cache = c.cache \ {c.list[Len(c.list)]},
                       !.list = SubSeq(c.list, 1, Len(c.list) - 1)])
  ELSE c

\* Set that reports a key it already holds as new
SetAlwaysTrue(c, url) ==
  IF url \in c.cache
  THEN [c |-> c, ret |-> TRUE]
  ELSE [c |-> Evict([c EXCEPT !.cache = c.cache \cup {url},
                              !.list = <<url>> \o c.list]),
        ret |-> TRUE]

\* Set without the membership test: every call inserts and returns true
SetWithoutLookup(c, url) ==
  [c |-> Evict([c EXCEPT !.cache = c.cache \cup {url},
                         !.list = <<url>> \o c.list]),
   ret |-> TRUE]

\* FIFOCache.Set under the mutex: the cache afterwards and the value returned
Set(c, url) ==
  IF url \in c.cache
  THEN [c |-> c, ret |-> FALSE]
  ELSE [c |-> Evict([c EXCEPT !.cache = c.cache \cup {url},
                              !.list = <<url>> \o c.list]),
        ret |-> TRUE]

\* FIFOCache.Size
Size(c) == Cardinality(c.cache)

\* a Clear that replaces the map and leaves the list
ClearMapOnly(c) == [c EXCEPT !.cache = {}]

\* FIFOCache.Clear
Clear(c) == [c EXCEPT !.cache = {}, !.list = <<>>]

TheCache == [cache |-> cache, list |-> list, maxSize |-> maxSize]

RECURSIVE Replay(_, _)
\* the values returned by Set for a sequence of keys, one call after another
Replay(c, keys) ==
  IF keys = <<>> THEN <<>>
  ELSE LET r == Set(c, Head(keys)) IN <<r.ret>> \o Replay(r.c, Tail(keys))

\* ----------------------------------------------------------------- actions
FlagTails == (1..MaxTail) \cup {DefaultTail}

TickSteps(tail) == {Nanosecond, NanosPerSecond,
                    tail * 60 * 60 * Nanosecond,
                    tail * 60 * 60 * NanosPerSecond}

\* request arguments explored by the range query
StartArgs == {NumArg((StartClock \div NanosPerSecond) - 1),
              NumArg(StartClock \div NanosPerSecond),
              NumArg(now \div NanosPerSecond), BadArg}

LimitArgs == {NumArg(1), NumArg(2), BadArg}

\* no write transaction is open
NoTx == [open |-> FALSE, bucket |-> EmptyBucket, keys |-> <<>>, i |-> 0,
         current |-> 0, removed |-> <<>>]

\* database.View(fn): fn reads the last committed state of the file, whatever
\* an open write transaction has changed so far
ViewWorking(committed, t) == IF t.open THEN t.bucket ELSE committed

View(committed, t) == committed

\* after flag.Parse, os.MkdirAll("./files") and database_init on a fresh
\* directory
InitProcess ==
  /\ now = StartClock
  /\ ticks = 0
  /\ flagTail \in FlagTails
  /\ db = EmptyBucket
  /\ seq = 0
  /\ files = {}
  /\ tx = NoTx
  /\ out = [op |-> "init"]

\* NewHLSProcessor(url, postProcessor), before Start
InitProcessor ==
  /\ running = FALSE
  /\ loops = 0
  /\ pc = "idle"
  /\ polls = 0
  /\ mainurl = NoUrl
  /\ playlist = <<>>
  /\ idx = 0
  /\ fetchurl = NoUrl
  /\ item = NoItem
  /\ requests = EmptyBag
  /\ appended = EmptyBag
  /\ assigned = <<>>
  /\ steady = NoUrl
  /\ failed = {}
  /\ evictions = EmptyBag

\* cache: NewFIFOCache(100) in NewHLSProcessor
InitProcessorCache ==
  /\ maxSize = ProcessorCacheSize
  /\ cache = NewFIFOCache(ProcessorCacheSize).cache
  /\ list = NewFIFOCache(ProcessorCacheSize).list

\* no goroutine is inside a FIFOCache method; the zero RWMutex is unlocked
Idle == [pc |-> "idle", op |-> "none", key |-> "", ret |-> FALSE, n |-> 0]

Unlocked == [w |-> 0, r |-> {}]

InitCallers ==
  /\ callers = [i \in 1..NumCallers |-> Idle]
  /\ mutex = Unlocked
  /\ raced = {}

InitStore ==
  /\ InitProcess
  /\ InitProcessor
  /\ InitProcessorCache
  /\ InitCallers

\* the clock advances
Tick ==
  /\ ticks < MaxTicks
  /\ \E d \in TickSteps(flagTail) : now' = now + d
  /\ ticks' = ticks + 1
  /\ out' = [op |-> "tick"]
  /\ UNCHANGED <<callerVars, flagTail, storeVars, cacheVars, loopVars, logVars>>

\* how long before the append the segment's currenttime was read: the clock
\* is read before the download, and loops started by separate Start calls
\* append in either order
StoreDelays == {0, Nanosecond}

\* a downloaded segment is saved: ioutil.WriteFile of the blob, then
\* database_store(item) with Name and T taken from the clock
StoreSegment ==
  /\ seq < MaxSeq
  /\ ~tx.open
  /\ \E len \in Durations, delay \in StoreDelays :
       LET r == database_store(db, seq, DatabaseItem(0, now - delay, len, now - delay))
       IN  /\ db' = r.db
           /\ seq' = r.seq
           /\ files' = files \cup {r.item.Name}
           /\ assigned' = Append(assigned, r.item.ID)
           /\ out' = [op |-> "store", item |-> r.item]
  /\ UNCHANGED <<steady, failed, callerVars, clockVars, tx, cacheVars, loopVars, requests, appended, evictions>>

\* one iteration of database_worker
Sweep ==
  /\ ~tx.open
  /\ \E stuck \in StuckSets(files) :
       LET current == Cutoff(now, flagTail)
           r == database_worker_tx(db, files, current, stuck)
       IN  /\ db' = r.db
           /\ files' = r.files
           /\ out' = [op |-> "sweep", cutoff |-> current, removed |-> r.removed]
  /\ UNCHANGED <<callerVars, clockVars, seq, tx, cacheVars, loopVars, logVars>>

\* GET /live/stream.m3u8
LiveStream ==
  /\ out' = handleLiveStream(View(db, tx))
  /\ UNCHANGED <<callerVars, clockVars, storeVars, cacheVars, loopVars, logVars>>

NextStore == Tick \/ StoreSegment \/ Sweep \/ LiveStream

SpecStore == InitStore /\ [][NextStore]_vars

\* the sweeper loops forever: for { ...; time.Sleep(time.Second) }
FairSpecStore == SpecStore /\ WF_vars(Sweep)

\* ------------------------------------------------------- the key encoding

\* non-negative timestamps around the byte boundaries of a key
Timestamps ==
  {0, 1, 2, 255, 256, 257, 511, 512, 65535, 65536, 65537,
   StartClock, StartClock + 1, (2 ^ (KeyBits - 1)) - 1}

\* itob applied to two timestamps
Encode ==
  /\ \E a, b \in Timestamps :
       out' = [op |-> "itob", a |-> a, b |-> b,
               ka |-> itobBytes(a), kb |-> itobBytes(b)]
  /\ UNCHANGED <<callerVars, clockVars, storeVars, cacheVars, loopVars, logVars>>

NextItob == Encode

SpecItob == InitStore /\ [][NextItob]_vars

\* ------------------------------------------- the windowed-manifest routes

\* database_get(s, l), as called by the windowed-manifest handlers
Get ==
  /\ \E s \in StartArgs, l \in LimitArgs :
       out' = [op |-> "get", s |-> s, l |-> l, items |-> database_get(View(db, tx), s, l)]
  /\ UNCHANGED <<callerVars, clockVars, storeVars, cacheVars, loopVars, logVars>>

\* the start arguments of the windowed requests: Unix seconds, the calendar
\* form, or neither
VodStartArgs ==
  {NumArg(StartClock \div NanosPerSecond),
   CalendarArg(StartClock \div NanosPerSecond), BadArg}

\* GET /start/{start}/{limit}/vod.m3u8
VodPlaylist ==
  /\ \E s \in VodStartArgs, l \in LimitArgs : out' = handleVODPlaylist(View(db, tx), s, l)
  /\ UNCHANGED <<callerVars, clockVars, storeVars, cacheVars, loopVars, logVars>>

\* GET /start/{start}/{limit}/stream.m3u8
VodStream ==
  /\ \E s \in VodStartArgs, l \in LimitArgs : out' = handleVODRequest(View(db, tx), s, l)
  /\ UNCHANGED <<callerVars, clockVars, storeVars, cacheVars, loopVars, logVars>>

\* handleAPIStats (uptime left out)
handleAPIStats(bucket, c) ==
  [op |-> "stats",
   segments_total  |-> database_count_segments(bucket),
   segments_recent |-> Len(database_last_5(bucket)),
   cache_size      |-> Size(c)]

\* the package-level globalCache in the program built around HLSProcessor:
\* only cache_set writes to it, and only the legacy fetcher calls cache_set,
\* so it stays as NewFIFOCache made it
globalCache == NewFIFOCache(GlobalCacheSize)

\* GET /api/stats
Stats ==
  /\ out' = handleAPIStats(View(db, tx), globalCache)
  /\ UNCHANGED <<callerVars, clockVars, storeVars, cacheVars, loopVars, logVars>>

\* the recorder appends and the clock advances while the routes are served
NextServe == Tick \/ StoreSegment \/ Get \/ VodPlaylist \/ VodStream \/ Stats

SpecServe == InitStore /\ [][NextServe]_vars

\* --------------------------------- the sweep's transaction, step by step

\* database.Update begins in database_worker: the cutoff is read, the write
\* transaction opens on the committed bucket and the cursor goes to First
TxBegin ==
  /\ ~tx.open
  /\ tx' = [open |-> TRUE, bucket |-> db, keys |-> Ascending(DOMAIN db), i |-> 1,
            current |-> Cutoff(now, flagTail), removed |-> <<>>]
  /\ out' = [op |-> "begin", cutoff |-> Cutoff(now, flagTail)]
  /\ UNCHANGED <<callerVars, clockVars, db, seq, files, cacheVars, loopVars, logVars>>

\* the cursor stands on a key not below the cutoff: the log line, os.RemoveAll
\* (which may fail), bucket.Delete inside the transaction, cursor.Next
TxDelete ==
  /\ tx.open
  /\ tx.i <= Len(tx.keys)
  /\ ~(tx.keys[tx.i] < itob(tx.current))
  /\ LET k    == tx.keys[tx.i]
         name == tx.bucket[k].Name
     IN  /\ \E stuck \in {{}, {name}} : files' = RemoveAll(files, name, stuck)
         /\ tx' = [tx EXCEPT !.bucket = Delete(@, k), !.i = @ + 1,
                              !.removed = Append(@, name)]
         /\ out' = [op |-> "removing", name |-> name]
  /\ UNCHANGED <<callerVars, clockVars, db, seq, cacheVars, loopVars, logVars>>

\* the function returns nil, at the end of the keys or at a key below the
\* cutoff: the transaction commits
TxCommit ==
  /\ tx.open
  /\ IF tx.i > Len(tx.keys) THEN TRUE ELSE tx.keys[tx.i] < itob(tx.current)
  /\ db' = tx.bucket
  /\ tx' = NoTx
  /\ out' = [op |-> "sweep", cutoff |-> tx.current, removed |-> tx.removed]
  /\ UNCHANGED <<callerVars, clockVars, seq, files, cacheVars, loopVars, logVars>>

RECURSIVE EarlierRun(_)
\* db.db and ./files as an earlier run of the process left them after n
\* appends, the last of them just before this run started
EarlierRun(n) ==
  IF n = 0 THEN [db |-> EmptyBucket, seq |-> 0, files |-> {}]
  ELSE LET e == EarlierRun(n - 1)
           T == StartClock - 2 - MaxKept + n
           r == database_store(e.db, e.seq, DatabaseItem(0, T, 2, T))
       IN  [db |-> r.db, seq |-> r.seq, files |-> e.files \cup {r.item.Name}]

\* the process starts in a directory that an earlier run has used:
\* database_init opens the existing db.db
InitExisting ==
  /\ now = StartClock
  /\ ticks = 0
  /\ flagTail \in FlagTails
  /\ \E n \in 0..MaxKept :
       /\ db = EarlierRun(n).db
       /\ seq = EarlierRun(n).seq
       /\ files = EarlierRun(n).files
  /\ tx = NoTx
  /\ out = [op |-> "init"]
  /\ InitProcessor
  /\ InitProcessorCache
  /\ InitCallers

\* the sweeper, the recorder and the two queries run side by side
NextTx ==
  \/ StoreSegment \/ TxBegin \/ TxDelete \/ TxCommit
  \/ LiveStream \/ Get

SpecTx == InitExisting /\ [][NextTx]_vars

\* ---- the dedup cache on its own: any capacity, any sequence of calls
Urls == {"a", "b", "c"}

InitCache ==
  /\ InitProcess
  /\ InitProcessor
  /\ InitCallers
  /\ flagTail = DefaultTail
  /\ maxSize \in 0..MaxCap
  /\ cache = NewFIFOCache(maxSize).cache
  /\ list = NewFIFOCache(maxSize).list

\* cache.Set(url)
CacheSet ==
  /\ \E url \in Urls :
       LET r == Set(TheCache, url)
       IN  /\ cache' = r.c.cache
           /\ list' = r.c.list
           /\ out' = [op |-> "set", url |-> url, ret |-> r.ret,
                       evicted |-> (cache \cup {url}) \ r.c.cache]
  /\ UNCHANGED <<callerVars, clockVars, storeVars, maxSize, loopVars, logVars>>

\* cache.Size()
CacheSize ==
  /\ out' = [op |-> "size", n |-> Size(TheCache)]
  /\ UNCHANGED <<callerVars, clockVars, storeVars, cacheVars, loopVars, logVars>>

\* cache.Clear()
CacheClear ==
  /\ cache' = Clear(TheCache).cache
  /\ list' = Clear(TheCache).list
  /\ out' = [op |-> "clear", dropped |-> cache]
  /\ UNCHANGED <<callerVars, clockVars, storeVars, maxSize, loopVars, logVars>>

NextCache == CacheSet \/ CacheSize \/ CacheClear

SpecCache == InitCache /\ [][NextCache]_vars

\* ---- goroutines calling into one FIFOCache at once, one method call each,
\* statement by statement under c.mutex
Callers == 1..NumCallers

\* a Lock that does not wait
CanLockAlways(m) == TRUE

\* c.mutex.Lock() returns once no writer and no reader holds the mutex
CanLock(m) == m.w = 0 /\ m.r = {}

\* an RLock that does not wait
CanRLockAlways(m) == TRUE

\* c.mutex.RLock() returns once no writer holds the mutex
CanRLock(m) == m.w = 0

\* the keys the goroutines pass to Set
CallerUrls == {"a", "b"}

\* some other goroutine is inside Set(url)
InFlight(i, url) ==
  \E j \in Callers \ {i} :
    callers[j].op = "set" /\ callers[j].key = url /\ callers[j].pc # "done"

\* a goroutine calls Set(url), Size() or Clear() and arrives at the mutex
Call(i) ==
  /\ callers[i].pc = "idle"
  /\ \/ \E url \in CallerUrls :
          /\ callers' = [callers EXCEPT ![i] = [Idle EXCEPT !.pc = "lock", !.op = "set", !.key = url]]
          /\ raced' = IF InFlight(i, url) THEN raced \cup {url} ELSE raced
     \/ /\ callers' = [callers EXCEPT ![i] = [Idle EXCEPT !.pc = "rlock", !.op = "size"]]
        /\ UNCHANGED raced
     \/ /\ callers' = [callers EXCEPT ![i] = [Idle EXCEPT !.pc = "lock", !.op = "clear"]]
        /\ UNCHANGED raced
  /\ UNCHANGED <<mutex, clockVars, storeVars, cacheVars, loopVars, logVars, out>>

\* c.mutex.Lock() in Set and Clear
Lock(i) ==
  /\ callers[i].pc = "lock"
  /\ CanLock(mutex)
  /\ mutex' = [mutex EXCEPT !.w = i]
  /\ callers' = [callers EXCEPT ![i].pc = IF callers[i].op = "set" THEN "lookup" ELSE "clear"]
  /\ UNCHANGED <<raced, clockVars, storeVars, cacheVars, loopVars, logVars, out>>

\* Set without the membership test
LookupAbsent(i) ==
  /\ callers[i].pc = "lookup"
  /\ callers' = [callers EXCEPT ![i].pc = "insert"]
  /\ UNCHANGED <<raced, mutex, clockVars, storeVars, cacheVars, loopVars, logVars, out>>

\* Set: if _, exists := c.cache[url]; exists { return false } (deferred Unlock)
Lookup(i) ==
  /\ callers[i].pc = "lookup"
  /\ IF callers[i].key \in cache
     THEN /\ callers' = [callers EXCEPT ![i].pc = "done", ![i].ret = FALSE]
          /\ mutex' = [mutex EXCEPT !.w = 0]
     ELSE /\ callers' = [callers EXCEPT ![i].pc = "insert"]
          /\ UNCHANGED mutex
  /\ UNCHANGED <<raced, clockVars, storeVars, cacheVars, loopVars, logVars, out>>

\* Set: c.cache[url] = true; c.list.PushFront(url)
Insert(i) ==
  /\ callers[i].pc = "insert"
  /\ cache' = cache \cup {callers[i].key}
  /\ list' = <<callers[i].key>> \o list
  /\ callers' = [callers EXCEPT ![i].pc = "evict"]
  /\ UNCHANGED <<raced, mutex, maxSize, clockVars, storeVars, loopVars, logVars, out>>

\* Set: the eviction loop, return true (deferred Unlock)
EvictAndReturn(i) ==
  /\ callers[i].pc = "evict"
  /\ LET c == Evict(TheCache)
     IN  /\ cache' = c.cache
         /\ list' = c.list
         /\ evictions' = AddAll(evictions, cache \ c.cache)
  /\ callers' = [callers EXCEPT ![i].pc = "done", ![i].ret = TRUE]
  /\ mutex' = [mutex EXCEPT !.w = 0]
  /\ UNCHANGED <<steady, failed, raced, maxSize, clockVars, storeVars, loopVars, requests, appended, assigned, out>>

\* Clear: the map and the list are replaced (deferred Unlock)
ClearAndReturn(i) ==
  /\ callers[i].pc = "clear"
  /\ cache' = Clear(TheCache).cache
  /\ list' = Clear(TheCache).list
  /\ evictions' = AddAll(evictions, cache)
  /\ callers' = [callers EXCEPT ![i].pc = "done"]
  /\ mutex' = [mutex EXCEPT !.w = 0]
  /\ UNCHANGED <<steady, failed, raced, maxSize, clockVars, storeVars, loopVars, requests, appended, assigned, out>>

\* c.mutex.RLock() in Size
RLock(i) ==
  /\ callers[i].pc = "rlock"
  /\ CanRLock(mutex)
  /\ mutex' = [mutex EXCEPT !.r = mutex.r \cup {i}]
  /\ callers' = [callers EXCEPT ![i].pc = "size"]
  /\ UNCHANGED <<raced, clockVars, storeVars, cacheVars, loopVars, logVars, out>>

\* Size: return len(c.cache) (deferred RUnlock)
SizeAndReturn(i) ==
  /\ callers[i].pc = "size"
  /\ callers' = [callers EXCEPT ![i].pc = "done", ![i].n = Size(TheCache)]
  /\ mutex' = [mutex EXCEPT !.r = mutex.r \ {i}]
  /\ UNCHANGED <<raced, clockVars, storeVars, cacheVars, loopVars, logVars, out>>

NextCallers ==
  \E i \in Callers :
    \/ Call(i)
    \/ Lock(i)
    \/ Lookup(i)
    \/ Insert(i)
    \/ EvictAndReturn(i)
    \/ ClearAndReturn(i)
    \/ RLock(i)
    \/ SizeAndReturn(i)

\* the cache the goroutines share: one call each cannot overflow a capacity
\* of NumCallers or more, so the capacities below that are explored
InitSharedCache ==
  /\ InitProcess
  /\ InitProcessor
  /\ InitCallers
  /\ flagTail = DefaultTail
  /\ maxSize \in 0..(NumCallers - 1)
  /\ cache = NewFIFOCache(maxSize).cache
  /\ list = NewFIFOCache(maxSize).list

SpecCallers == InitSharedCache /\ [][NextCallers]_vars

\* ---- the HLS fetch loop against an arbitrary upstream
\* p.url
SourceUrl == Url("live", "index.m3u8", "token=1")

VariantRefs == {Ref(FALSE, "", "low.m3u8", ""), Ref(TRUE, "cdn", "high.m3u8", "v=2")}

SegmentRefs == {Ref(FALSE, "", "s1.ts", ""), Ref(FALSE, "", "s2.ts", ""),
                Ref(FALSE, "", "s1.ts", "x=1")}

\* an entry of playlist.Segments: nil or a segment with URI and Duration
NilSegment == [nil |-> TRUE]

Segments == {[nil |-> FALSE, URI |-> r, Duration |-> d] : r \in SegmentRefs, d \in Durations}

SeqsUpTo(S, n) == UNION {[1..m -> S] : m \in 0..n}

\* what a GET of a manifest URI can come back with: no bytes (network error
\* or non-2xx), bytes m3u8.Decode rejects, a master or a media playlist
Responses ==
  {[kind |-> "fail"], [kind |-> "garbage"]}
    \cup {[kind |-> "master", Variants |-> v] : v \in SeqsUpTo(VariantRefs, 2)}
    \cup {[kind |-> "media", Segments |-> sg] :
            sg \in SeqsUpTo(Segments \cup {NilSegment}, MaxSegments)}

InitFetch ==
  /\ InitProcess
  /\ InitProcessor
  /\ InitProcessorCache
  /\ InitCallers
  /\ flagTail = DefaultTail

\* HLSProcessor.Start: p.running = true; go p.fetchLoop() (the goroutine
\* begins with url.Parse(p.url)); one fetchLoop at a time is explored
Start ==
  /\ pc \in {"idle", "exited"}
  /\ running' = TRUE
  /\ loops' = loops + 1
  /\ pc' = "loop"
  /\ mainurl' = SourceUrl
  /\ UNCHANGED <<callerVars, clockVars, storeVars, cacheVars, logVars, out,
                 polls, playlist, idx, fetchurl, item>>

\* HLSProcessor.Stop
Stop ==
  /\ running
  /\ running' = FALSE
  /\ UNCHANGED <<callerVars, clockVars, storeVars, cacheVars, logVars, out,
                 loops, pc, polls, mainurl, playlist, idx, fetchurl, item>>

\* for p.running { ... }: the loop condition; when it fails fetchLoop
\* returns and its locals are gone
LoopTest ==
  /\ pc = "loop"
  /\ IF running THEN pc' = "fetch" /\ UNCHANGED <<mainurl, steady, loops>>
                ELSE /\ pc' = "exited" /\ mainurl' = NoUrl /\ steady' = NoUrl
                     /\ loops' = loops - 1
  /\ UNCHANGED <<callerVars, clockVars, storeVars, cacheVars, out,
                 requests, appended, assigned, evictions, failed,
                 running, polls, playlist, idx, fetchurl, item>>

\* the variant a master playlist sends the loop to: the last one listed
LastVariant(variants) == variants[Len(variants)]

\* for _, variant := range masterpl.Variants { ...; goto start_at }: the body
\* runs for the first variant only
SelectedVariant(variants) == variants[1]

\* a failed attempt that goes back to p.url
AfterFailureRestart(cur) == SourceUrl

\* b == nil, or m3u8.Decode returned an error: time.Sleep(1s); continue, with
\* mainurl as it was
AfterFailure(cur) == cur

\* start_at: fetch mainurl, decode the response and branch on the playlist
\* type; count is the number of manifest fetches afterwards
FetchStep(resp, count) ==
  /\ pc = "fetch"
  /\ polls' = count
  /\   /\ out' = [op |-> "manifest", url |-> mainurl, kind |-> resp.kind,
                   Variants |-> IF resp.kind = "master" THEN resp.Variants ELSE <<>>]
       /\ CASE resp.kind \in {"fail", "garbage"} ->
                \* time.Sleep(1s); continue
                /\ pc' = "loop"
                /\ mainurl' = AfterFailure(mainurl)
                /\ UNCHANGED <<playlist, idx, steady>>
           [] resp.kind = "master" /\ Len(resp.Variants) > 0 ->
                \* the first variant; goto start_at
                /\ mainurl' = Parse(mainurl, SelectedVariant(resp.Variants))
                /\ pc' = "fetch"
                /\ UNCHANGED <<playlist, idx, steady>>
           [] resp.kind = "master" /\ Len(resp.Variants) = 0 ->
                \* no variant: time.Sleep(3s) and around the loop
                /\ pc' = "loop"
                /\ UNCHANGED <<mainurl, playlist, idx, steady>>
           [] resp.kind = "media" ->
                /\ steady' = IF steady = NoUrl THEN mainurl ELSE steady
                /\ playlist' = resp.Segments
                /\ idx' = 1
                /\ pc' = "segment"
                /\ UNCHANGED mainurl
  /\ UNCHANGED <<callerVars, clockVars, storeVars, cacheVars,
                 requests, appended, assigned, evictions, failed,
                 running, loops, fetchurl, item>>

\* the manifest fetches that are counted
FetchManifest ==
  /\ polls < MaxPolls
  /\ \E resp \in Responses : FetchStep(resp, polls + 1)

\* a skip that leaves the range loop
ContinueAtEnd(i, n) == n + 1

\* `continue` (or the end of the loop body) in the range loop over
\* playlist.Segments, standing at entry i of n: the next entry
Continue(i, n) == i + 1

\* a segment URL that keeps the query of the segment reference
SegmentUrlKeepingRefQuery(base, ref) == Parse(base, ref)

\* fetchurl, _ := baseURL.Parse(segment.URI); fetchurl.RawQuery = baseURL.RawQuery
SegmentUrl(base, ref) == [Parse(base, ref) EXCEPT !.query = base.query]

\* processSegments: one turn of `for _, segment := range playlist.Segments`
\* up to the download: nil check, URI resolution, p.cache.Set
NextSegment ==
  /\ pc = "segment"
  /\ IF idx > Len(playlist)
     THEN \* processSegments returns (its locals are gone); time.Sleep(3s)
          /\ pc' = "loop"
          /\ playlist' = <<>>
          /\ idx' = 0
          /\ UNCHANGED <<cacheVars, evictions, fetchurl, item, out>>
     ELSE IF playlist[idx].nil
     THEN /\ idx' = Continue(idx, Len(playlist))
          /\ UNCHANGED <<cacheVars, evictions, pc, playlist, fetchurl, item, out>>
     ELSE LET u == SegmentUrl(mainurl, playlist[idx].URI)
              r == Set(TheCache, u)
          IN  /\ cache' = r.c.cache
              /\ list' = r.c.list
              /\ evictions' = AddAll(evictions, (cache \cup {u}) \ r.c.cache)
              /\ out' = [op |-> "set", url |-> u, ret |-> r.ret]
              /\ UNCHANGED <<maxSize, playlist>>
              /\ IF r.ret
                 THEN /\ fetchurl' = u
                      /\ item' = DatabaseItem(0, now, playlist[idx].Duration, now)
                      /\ pc' = "download"
                      /\ UNCHANGED idx
                 ELSE /\ idx' = idx + 1
                      /\ UNCHANGED <<pc, fetchurl, item>>
  /\ UNCHANGED <<steady, failed, callerVars, ticks, flagTail, now, storeVars, requests, appended, assigned,
                 running, loops, polls, mainurl>>

\* how long a segment GET takes on the wall clock
DownloadTimes == {Nanosecond}

\* segmentData := p.fetch(fetchurl): nil leaves the segment behind
DownloadSegment ==
  /\ pc = "download"
  /\ requests' = AddAll(requests, {fetchurl})
  /\ \E d \in DownloadTimes : now' = now + d
  /\ \E ok \in BOOLEAN :
       IF ok THEN /\ pc' = "write"
                  /\ UNCHANGED <<idx, fetchurl, item, failed>>
             ELSE /\ pc' = "segment"
                  /\ idx' = Continue(idx, Len(playlist))
                  /\ fetchurl' = NoUrl
                  /\ item' = NoItem
                  /\ failed' = failed \cup {fetchurl}
  /\ UNCHANGED <<steady, callerVars, ticks, flagTail, storeVars, cacheVars, appended, assigned, evictions, out,
                 running, loops, polls, mainurl, playlist>>

\* a write error that is logged and then ignored
AfterWriteIgnoringError(ok) == "store"

\* if err != nil { log.Printf(...); continue }: where processSegments goes
\* after ioutil.WriteFile
AfterWrite(ok) == IF ok THEN "store" ELSE "segment"

\* ioutil.WriteFile("./files/" + item.Name): an error skips the segment
WriteBlob ==
  /\ pc = "write"
  /\ \E ok \in BOOLEAN :
       /\ files' = IF ok THEN files \cup {item.Name} ELSE files
       /\ pc' = AfterWrite(ok)
       /\ IF AfterWrite(ok) = "store"
          THEN UNCHANGED <<idx, fetchurl, item>>
          ELSE /\ idx' = Continue(idx, Len(playlist))
               /\ fetchurl' = NoUrl
               /\ item' = NoItem
  /\ UNCHANGED <<callerVars, clockVars, db, seq, tx, cacheVars, logVars, out,
                 running, loops, polls, mainurl, playlist>>

\* database.Update(fn): the writes of fn are kept when the transaction
\* commits and discarded when it does not
Update(commits, before, after) == IF commits THEN after ELSE before

\* what database_store tells its caller about the transaction: it has no
\* result, and the error of database.Update is dropped
Reported(commits) == FALSE

\* database_store(item), whose transaction may fail to commit; the
\* post-processor is disabled (Enabled: false)
StoreItem ==
  /\ pc = "store"
  /\ ~tx.open
  /\ \E commits \in BOOLEAN :
       LET r == database_store(db, seq, item)
       IN  /\ db' = Update(commits, db, r.db)
           /\ seq' = Update(commits, seq, r.seq)
           /\ assigned' = Update(commits, assigned, Append(assigned, r.item.ID))
           /\ appended' = Update(commits, appended, AddAll(appended, {fetchurl}))
           /\ out' = [op |-> "append", persisted |-> commits,
                       reported |-> Reported(commits)]
  /\ pc' = "segment"
  /\ idx' = idx + 1
  /\ fetchurl' = NoUrl
  /\ item' = NoItem
  /\ UNCHANGED <<steady, failed, callerVars, clockVars, files, tx, cacheVars, requests, evictions,
                 running, loops, polls, mainurl, playlist>>

NextFetch ==
  \/ Start \/ Stop \/ LoopTest \/ FetchManifest \/ NextSegment
  \/ DownloadSegment \/ WriteBlob \/ StoreItem

SpecFetch == InitFetch /\ [][NextFetch]_vars

\* ---- the fetch loop while Stop is called: past the counted fetches the
\* upstream goes on answering, with anything but a media playlist
FetchMore ==
  /\ polls = MaxPolls
  /\ \E resp \in Responses : resp.kind # "media" /\ FetchStep(resp, polls)

NextStop == NextFetch \/ FetchMore

\* the goroutine of fetchLoop keeps running: each of its steps is taken when
\* it stays enabled; what the upstream answers is not constrained
FairSpecStop ==
  /\ InitFetch /\ [][NextStop]_vars
  /\ WF_vars(LoopTest) /\ WF_vars(FetchManifest \/ FetchMore)
  /\ WF_vars(NextSegment) /\ WF_vars(DownloadSegment)
  /\ WF_vars(WriteBlob) /\ WF_vars(StoreItem)

\* ---- /api/stats served while the fetch loop runs
NextStats == NextFetch \/ Stats

SpecStats == InitFetch /\ [][NextStats]_vars

\* ---- Start and Stop called at any time. One fetchLoop is followed step by
\* step (pc); of a further one only the fact that it has not returned is kept
\* HLSProcessor.Start while a fetchLoop is alive: p.running = true and
\* another go p.fetchLoop()
StartAgain ==
  /\ pc \notin {"idle", "exited"}
  /\ loops < MaxLoops
  /\ running' = TRUE
  /\ loops' = loops + 1
  /\ UNCHANGED <<callerVars, clockVars, storeVars, cacheVars, logVars, out,
                 pc, polls, mainurl, playlist, idx, fetchurl, item>>

\* a further fetchLoop finds p.running false at its loop condition and returns
OtherLoopReturn ==
  /\ loops > (IF pc \in {"idle", "exited"} THEN 0 ELSE 1)
  /\ ~running
  /\ loops' = loops - 1
  /\ UNCHANGED <<callerVars, clockVars, storeVars, cacheVars, logVars, out,
                 running, pc, polls, mainurl, playlist, idx, fetchurl, item>>

NextStartStop == NextFetch \/ StartAgain \/ OtherLoopReturn

SpecStartStop == InitFetch /\ [][NextStartStop]_vars

\* ---- the legacy fetcher() loop, which dedups through the package-level cache
\* var globalCache = NewFIFOCache(10)
InitGlobalCache ==
  /\ maxSize = GlobalCacheSize
  /\ cache = NewFIFOCache(GlobalCacheSize).cache
  /\ list = NewFIFOCache(GlobalCacheSize).list

InitLegacy ==
  /\ InitProcess
  /\ InitProcessor
  /\ InitGlobalCache
  /\ InitCallers
  /\ flagTail = DefaultTail

\* go fetcher() in main: mainurl, _ := url.Parse(*flagURL)
fetcherStart ==
  /\ pc = "idle"
  /\ pc' = "fetch"
  /\ mainurl' = SourceUrl
  /\ UNCHANGED <<callerVars, clockVars, storeVars, cacheVars, logVars, out,
                 running, loops, polls, playlist, idx, fetchurl, item>>

\* start_at in fetcher: fetch, decode and branch; the loop is `for { }`, and
\* the bytes of a failed fetch (nil) do not decode
fetcherFetch ==
  /\ pc = "fetch"
  /\ polls < MaxPolls
  /\ polls' = polls + 1
  /\ \E resp \in Responses :
       /\ out' = [op |-> "manifest", url |-> mainurl, kind |-> resp.kind,
                   Variants |-> IF resp.kind = "master" THEN resp.Variants ELSE <<>>]
       /\ CASE resp.kind \in {"fail", "garbage"} ->
                /\ pc' = "fetch"
                /\ UNCHANGED <<mainurl, playlist, idx>>
           [] resp.kind = "master" /\ Len(resp.Variants) > 0 ->
                /\ mainurl' = Parse(mainurl, SelectedVariant(resp.Variants))
                /\ pc' = "fetch"
                /\ UNCHANGED <<playlist, idx>>
           [] resp.kind = "master" /\ Len(resp.Variants) = 0 ->
                /\ pc' = "fetch"
                /\ UNCHANGED <<mainurl, playlist, idx>>
           [] resp.kind = "media" ->
                /\ playlist' = resp.Segments
                /\ idx' = 1
                /\ pc' = "segment"
                /\ UNCHANGED mainurl
  /\ UNCHANGED <<callerVars, clockVars, storeVars, cacheVars, logVars,
                 running, loops, fetchurl, item>>

\* one turn of the range loop in fetcher up to the download: nil check, URI
\* resolution, cache_set, and for an admitted URI database_store(item)
fetcherSegment ==
  /\ pc = "segment"
  /\ ~tx.open
  /\ IF idx > Len(playlist)
     THEN \* time.Sleep(3s) and around the loop
          /\ pc' = "fetch"
          /\ playlist' = <<>>
          /\ idx' = 0
          /\ UNCHANGED <<cacheVars, evictions, fetchurl, item, out, db, seq,
                         assigned, appended>>
     ELSE IF playlist[idx].nil
     THEN /\ idx' = Continue(idx, Len(playlist))
          /\ UNCHANGED <<cacheVars, evictions, pc, playlist, fetchurl, item, out,
                         db, seq, assigned, appended>>
     ELSE LET u == SegmentUrl(mainurl, playlist[idx].URI)
              r == Set(TheCache, u)
              s == database_store(db, seq, DatabaseItem(0, now, playlist[idx].Duration, now))
          IN  /\ cache' = r.c.cache
              /\ list' = r.c.list
              /\ evictions' = AddAll(evictions, (cache \cup {u}) \ r.c.cache)
              /\ out' = [op |-> "set", url |-> u, ret |-> r.ret]
              /\ UNCHANGED <<maxSize, playlist>>
              /\ IF r.ret
                 THEN /\ fetchurl' = u
                      /\ item' = s.item
                      /\ db' = s.db
                      /\ seq' = s.seq
                      /\ assigned' = Append(assigned, s.item.ID)
                      /\ appended' = AddAll(appended, {u})
                      /\ pc' = "download"
                      /\ UNCHANGED idx
                 ELSE /\ idx' = Continue(idx, Len(playlist))
                      /\ UNCHANGED <<pc, fetchurl, item, db, seq, assigned, appended>>
  /\ UNCHANGED <<steady, failed, callerVars, clockVars, files, tx, requests,
                 running, loops, polls, mainurl>>

\* b := fetch(fetchurl); if b != nil { ioutil.WriteFile(...) }
fetcherDownload ==
  /\ pc = "download"
  /\ requests' = AddAll(requests, {fetchurl})
  /\ \E d \in DownloadTimes : now' = now + d
  /\ \E ok \in BOOLEAN, written \in BOOLEAN :
       /\ files' = IF ok /\ written THEN files \cup {item.Name} ELSE files
       /\ failed' = IF ok THEN failed ELSE failed \cup {fetchurl}
       /\ out' = [op |-> "blob", url |-> fetchurl, name |-> item.Name,
                   downloaded |-> ok, written |-> ok /\ written]
  /\ pc' = "segment"
  /\ idx' = Continue(idx, Len(playlist))
  /\ fetchurl' = NoUrl
  /\ item' = NoItem
  /\ UNCHANGED <<steady, callerVars, ticks, flagTail, db, seq, tx, cacheVars,
                 appended, assigned, evictions, running, loops, polls, mainurl, playlist>>

NextLegacy == fetcherStart \/ fetcherFetch \/ fetcherSegment \/ fetcherDownload

SpecLegacy == InitLegacy /\ [][NextLegacy]_vars

\* ---- the fetch loop against an upstream that serves a chain of master
\* playlists ending in a media playlist, and whose GETs may fail
\* the URI attribute of the first variant of the i-th master playlist
ChainRef(i) == Ref(FALSE, "", ToString(i), "")

\* the URI attribute of its second variant, where no document is served
DecoyRef == Ref(TRUE, "cdn", "none.m3u8", "")

RECURSIVE ChainUrl(_)
\* the URI of the i-th document of the chain, p.url being the first
ChainUrl(i) == IF i = 0 THEN SourceUrl ELSE Parse(ChainUrl(i - 1), ChainRef(i))

\* the documents the upstream serves at a URI
Documents(u) ==
  IF \E i \in 0..(MaxChain - 1) : u = ChainUrl(i)
  THEN LET i == CHOOSE j \in 0..(MaxChain - 1) : u = ChainUrl(j)
       IN  {[kind |-> "master", Variants |-> <<ChainRef(i + 1), DecoyRef>>]}
  ELSE IF u = ChainUrl(MaxChain)
  THEN {[kind |-> "media", Segments |-> sg] :
          sg \in SeqsUpTo(Segments \cup {NilSegment}, MaxSegments)}
  ELSE {}

\* p.fetch(mainurl) returns nil: time.Sleep(1s); continue
ChainFetchFail ==
  /\ pc = "fetch"
  /\ out' = [op |-> "manifest", url |-> mainurl, kind |-> "fail", Variants |-> <<>>]
  /\ pc' = "loop"
  /\ mainurl' = AfterFailure(mainurl)
  /\ UNCHANGED <<callerVars, clockVars, storeVars, cacheVars, logVars,
                 running, loops, polls, playlist, idx, fetchurl, item>>

\* p.fetch(mainurl) returns the document served at mainurl
ChainFetchOk ==
  /\ pc = "fetch"
  /\ \E resp \in Documents(mainurl) :
       /\ out' = [op |-> "manifest", url |-> mainurl, kind |-> resp.kind,
                   Variants |-> IF resp.kind = "master" THEN resp.Variants ELSE <<>>]
       /\ IF resp.kind = "master"
          THEN /\ mainurl' = Parse(mainurl, SelectedVariant(resp.Variants))
               /\ pc' = "fetch"
               /\ UNCHANGED <<polls, playlist, idx, steady>>
          ELSE /\ polls < MaxPolls
               /\ polls' = polls + 1
               /\ steady' = IF steady = NoUrl THEN mainurl ELSE steady
               /\ playlist' = resp.Segments
               /\ idx' = 1
               /\ pc' = "segment"
               /\ UNCHANGED mainurl
  /\ UNCHANGED <<callerVars, clockVars, storeVars, cacheVars,
                 requests, appended, assigned, evictions, failed,
                 running, loops, fetchurl, item>>

NextResolve ==
  \/ Start \/ LoopTest \/ ChainFetchFail \/ ChainFetchOk \/ NextSegment
  \/ DownloadSegment \/ WriteBlob \/ StoreItem

SpecResolve == InitFetch /\ [][NextResolve]_vars

\* main calls Start and the goroutine runs; a GET that is tried again and
\* again succeeds in the end
FairSpecResolve ==
  SpecResolve /\ WF_vars(Start) /\ WF_vars(LoopTest) /\ SF_vars(ChainFetchOk)

\* ------------------------------------------------------ store properties
Records(bucket) == {bucket[k] : k \in DOMAIN bucket}

\* the records of a bucket in ascending key order
InKeyOrder(bucket) ==
  LET keys == Ascending(DOMAIN bucket) IN [i \in 1..Len(keys) |-> bucket[keys[i]]]

\* the last (at most n) elements of a sequence, in the same order
LastN(s, n) ==
  LET m == IF Len(s) < n THEN Len(s) ELSE n IN [i \in 1..m |-> s[Len(s) - m + i]]

\* the first (at most n) elements of a sequence
FirstN(s, n) ==
  LET m == IF Len(s) < n THEN Len(s) ELSE n IN [i \in 1..m |-> s[i]]

\* every append so far had its own timestamp and nothing was swept
AllAppendsKept == Cardinality(DOMAIN db) = seq

\* C1: after appends with distinct timestamps the tail query returns exactly
\* the min(5, total) records with the largest keys, oldest first, and the
\* most recently appended record is among them.
C1_TailIsLastFive ==
  AllAppendsKept =>
    /\ database_last_5(db) = LastN(InKeyOrder(db), 5)
    /\ (out.op = "store" =>
          \E i \in 1..Len(database_last_5(db)) : database_last_5(db)[i] = out.item)

\* C2: the live manifest request answers 404 exactly when the store is
\* empty, and after one append to an empty store it lists exactly one
\* segment with EXT-X-MEDIA-SEQUENCE equal to that record's sequenceID.
C2_LiveManifest ==
  out.op = "live" =>
    /\ (out.status = 404) <=> (DOMAIN db = {})
    /\ (seq = 1 /\ Cardinality(DOMAIN db) = 1) =>
         /\ out.status = 200
         /\ Len(out.entries) = 1
         /\ \A r \in Records(db) : out.mediaSeq = r.ID

\* C4: a sweep with cutoff c removes exactly the records with key < c and
\* their blobs, and leaves every record with key >= c and its blob alone.
C4_SweepRemovesExactlyOlder ==
  [][out'.op = "sweep" =>
       LET c == itob(out'.cutoff)
           old == {k \in DOMAIN db : k < c}
       IN  /\ DOMAIN db' = (DOMAIN db) \ old
           /\ \A k \in DOMAIN db' : db'[k] = db[k]
           /\ files' = files \ {db[k].Name : k \in old}]_vars

\* the retention horizon of flagTail hours, in nanoseconds
RetentionHorizon == flagTail * 3600 * NanosPerSecond

Expired(r) == r.T < now - RetentionHorizon

\* C5: under a continuously running sweeper every record that has fallen
\* below now minus the retention horizon is eventually removed, with its
\* blob.
C5_ExpiredEventuallyRemoved ==
  \A id \in 1..MaxSeq :
    (\E r \in Records(db) : r.ID = id /\ Expired(r))
      ~> (\A r \in Records(db) : r.ID # id)

\* C6: the cutoff a sweep uses is now minus flagTail hours in nanoseconds.
C6_CutoffIsTailHours ==
  out.op = "sweep" => out.cutoff = now - RetentionHorizon

\* cutoffs tried by the idempotence check: the sweeper's own and the ones
\* around every stored key
CutoffsAround(bucket) ==
  {Cutoff(now, flagTail)} \cup (DOMAIN bucket) \cup {k + 1 : k \in DOMAIN bucket}

\* C7: a sweep re-applied with the same cutoff right after a sweep with
\* that cutoff changes neither the records nor the blobs.
C7_SweepIdempotent ==
  \A c \in CutoffsAround(db), stuck \in StuckSets(files) :
    LET once  == database_worker_tx(db, files, c, stuck)
        twice == database_worker_tx(once.db, once.files, c, stuck)
    IN  twice.db = once.db /\ twice.files = once.files /\ twice.removed = <<>>

\* a first sweep removed something and a second one with the same cutoff ran
C7_Witness ==
  /\ out.op = "sweep"
  /\ out.removed # <<>>
  /\ database_worker_tx(db, files, out.cutoff, {}).removed = <<>>

\* C8: the range query returns exactly the records with key in
\* [start*10^9, start*10^9 + minutes*60*10^9), in ascending key order.
C8_GetReturnsWindow ==
  (out.op = "get" /\ out.s.num /\ out.l.num) =>
    LET lo == out.s.val * NanosPerSecond
        hi == lo + out.l.val * 60 * NanosPerSecond
        keys == Ascending({k \in DOMAIN db : lo <= k /\ k < hi})
    IN  out.items = [i \in 1..Len(keys) |-> db[keys[i]]]

\* C9: database_get(start, limit) returns the first min(limit, m) records
\* with key >= start*10^9 in ascending key order.
C9_GetReturnsAtMostLimit ==
  (out.op = "get" /\ out.s.num /\ out.l.num) =>
    LET lo == out.s.val * NanosPerSecond
        keys == Ascending({k \in DOMAIN db : lo <= k})
    IN  out.items = FirstN([i \in 1..Len(keys) |-> db[keys[i]]], out.l.val)

\* C18: for any non-empty store the live manifest's EXT-X-MEDIA-SEQUENCE
\* equals the sequence ID of the oldest record the tail query returned, the
\* first segment entry listed in the manifest
C18_MediaSequenceIsOldestListed ==
  out.op = "live" /\ out.status = 200 =>
    /\ out.entries[1] = database_last_5(db)[1].Name
    /\ out.mediaSeq = database_last_5(db)[1].ID

\* C25: a windowed-manifest request whose start time is unparsable or whose
\* duration is non-numeric is answered 400 with no manifest body, on both the
\* vod.m3u8 and the stream.m3u8 routes, and changes nothing in the store
C25_BadWindowArgsRejected ==
  [][ (out'.op = "vod" /\ (out'.start = BadArg \/ out'.limit = BadArg)) =>
        (out'.status = 400 /\ ~out'.body /\ storeVars' = storeVars) ]_vars

\* C26: /start/{start}/{limit}/vod.m3u8 accepts the start time as a calendar
\* timestamp and as raw Unix seconds, and returns the VOD manifest of the
\* corresponding window in either case
C26_VodAcceptsBothForms ==
  (out.op = "vod" /\ out.route = "vod.m3u8" /\ out.start # BadArg
     /\ out.limit # BadArg) =>
    /\ out.status = 200
    /\ out.entries =
         [i \in 1..Len(database_get(db, NumArg(StartClock \div NanosPerSecond), out.limit))
            |-> database_get(db, NumArg(StartClock \div NanosPerSecond), out.limit)[i].Name]

\* the names of the records of a bucket
Names(bucket) == {bucket[k].Name : k \in DOMAIN bucket}

\* C28: during a sweep a failure to delete a record's blob does not prevent
\* the removal of that record's row: the rows are removed exactly as in a
\* sweep without failures, and the sweep goes on with the next record
C28_RowRemovedDespiteBlobFailure ==
  [][ (out'.op = "sweep" /\ (out' # out \/ db' # db \/ files' # files)) =>
        LET clean == database_worker_tx(db, files, out'.cutoff, {})
        IN  /\ db' = clean.db
            /\ out'.removed = clean.removed
            /\ \A i \in 1..Len(out'.removed) : out'.removed[i] \notin Names(db') ]_vars

\* a sweep went past a record whose blob could not be deleted and removed a
\* later record: the first blob is still there, its row is not
C28_Witness ==
  /\ out.op = "sweep"
  /\ Len(out.removed) >= 2
  /\ out.removed[1] \in files
  /\ out.removed[1] \notin Names(db)

\* C30: after any sequence of appends database_count_segments() returns the
\* number of records currently held in the store (0 for an empty store, N
\* after N appends with distinct timestamps)
C30_CountIsNumberOfRecords ==
  (out.op = "stats") => (out.segments_total = Cardinality(DOMAIN db))

\* the bucket after all the deletions of the sweep whose transaction is open
AfterSweep == database_worker_tx(db, files, tx.current, {}).db

\* C29: a tail or range query that runs while a sweep's transaction is open
\* sees the bucket as it was before the sweep's deletions or as it is after
\* all of them, never with only some of them applied; the commit installs
\* exactly the bucket after all of them
C29_QuerySeesWholeSweeps ==
  [][ /\ (tx.open /\ out' # out /\ out'.op = "live") =>
           (out' \in {handleLiveStream(db), handleLiveStream(AfterSweep)})
      /\ (tx.open /\ out' # out /\ out'.op = "get") =>
           (out'.items \in {database_get(db, out'.s, out'.l),
                            database_get(AfterSweep, out'.s, out'.l)})
      /\ (tx.open /\ ~tx'.open) => (db' = AfterSweep) ]_vars

\* a tail query answered while some but not all deletions of the open
\* transaction were applied, where the half-swept bucket would have given
\* another answer
C29_Witness ==
  /\ tx.open
  /\ tx.bucket # db
  /\ tx.bucket # AfterSweep
  /\ out.op = "live"
  /\ out # handleLiveStream(tx.bucket)

\* C31: when several goroutines call database_store concurrently no append
\* is lost: every call adds one record to the bucket, and the records carry
\* pairwise distinct sequence IDs
C31_NoAppendLost ==
  [][ (out'.op = "store" /\ seq' # seq) =>
        /\ Cardinality(DOMAIN db') = Cardinality(DOMAIN db) + 1
        /\ \A j, k \in DOMAIN db' : (j # k) => (db'[j].ID # db'[k].ID) ]_vars

RECURSIVE BigEndianValue(_)
\* the number whose big-endian digits in base 256 are the bytes
BigEndianValue(bytes) ==
  IF bytes = <<>> THEN 0
  ELSE 256 * BigEndianValue(SubSeq(bytes, 1, Len(bytes) - 1)) + bytes[Len(bytes)]

\* C32: itob yields a key of the full key length in big-endian order, and
\* for two non-negative timestamps a < b the key of a is lexicographically
\* smaller than the key of b; the byte order of two keys is the numeric order
\* of the unsigned values that stand for them in the store
C32_ItobOrderPreserving ==
  (out.op = "itob") =>
    /\ Len(out.ka) = KeyBytes /\ Len(out.kb) = KeyBytes
    /\ \A i \in 1..KeyBytes : out.ka[i] \in 0..255
    /\ BigEndianValue(out.ka) = out.a
    /\ (out.a < out.b) => BytesLess(out.ka, out.kb)
    /\ BytesLess(out.ka, out.kb) <=> (itob(out.a) < itob(out.b))

\* two timestamps whose low bytes are in the opposite order
C32_Witness ==
  /\ out.op = "itob"
  /\ out.a < out.b
  /\ out.a % 256 > out.b % 256
  /\ BytesLess(out.ka, out.kb)

\* C36: in every reachable state of the concurrent system every record that
\* a store read can return has its blob file present in the blob directory
C36_ReadableRecordHasBlob ==
  \A k \in DOMAIN View(db, tx) : View(db, tx)[k].Name \in files

C17_SequenceStrictlyIncreasing ==
  /\ Len(assigned) >= 1 => assigned[1] = 1
  /\ \A i, j \in 1..Len(assigned) : i < j => assigned[i] < assigned[j]

\* an append with a timestamp older than a stored record's, after earlier
\* records had left the bucket
C17_Witness ==
  /\ out.op = "store"
  /\ Len(assigned) >= 2
  /\ Len(assigned) > Cardinality(DOMAIN db)
  /\ \E r \in Records(db) : r.T > out.item.T

\* ------------------------------------------------------ cache properties
\* C10 as stated: Set returns true and records the key when the key is not
\* in the cache, and returns false when it is, leaving contents, size and
\* eviction order unchanged.
C10_SetAdmitsAndRecords ==
  [][out'.op = "set" =>
       /\ (out'.url \notin cache =>
             out'.ret = TRUE /\ out'.url \in cache')
       /\ (out'.url \in cache =>
             out'.ret = FALSE /\ cache' = cache /\ list' = list)]_vars

\* C10 (amended): Set returns true exactly when the key is not in the cache;
\* it then records the key as the newest entry if the capacity is at least
\* 1 and retains nothing if the capacity is 0; when it returns false the
\* contents, size and eviction order are unchanged.
C10_SetAdmitsAndRecordsIfRoom ==
  [][out'.op = "set" =>
       /\ (out'.url \notin cache =>
             /\ out'.ret = TRUE
             /\ maxSize >= 1 => (out'.url \in cache' /\ list'[1] = out'.url)
             /\ maxSize = 0 => (cache' = {} /\ list' = <<>>))
       /\ (out'.url \in cache =>
             out'.ret = FALSE /\ cache' = cache /\ list' = list)]_vars

\* a present key was refused, in a cache that holds another key as well
C10_Witness ==
  /\ out.op = "set" /\ out.ret = FALSE
  /\ out.url \in cache
  /\ Cardinality(cache) >= 2

\* C13: the cache evicts in strict insertion order: an admission that pushes
\* the count above the capacity K evicts exactly the oldest-inserted key, so
\* the cache holds the min(K, n) most recently admitted keys, newest first;
\* with K = 2 the calls Set a, b, c, a, c return true, true, true, true, false
C13_EvictsOldestFirst ==
  [][ /\ Replay(NewFIFOCache(2), <<"a", "b", "c", "a", "c">>)
           = <<TRUE, TRUE, TRUE, TRUE, FALSE>>
      /\ out'.op = "set" /\ out'.ret =>
           /\ list' = FirstN(<<out'.url>> \o list, maxSize)
           /\ cache' = {list'[i] : i \in 1..Len(list')}
           /\ out'.evicted = IF Len(list) >= maxSize
                              THEN {(<<out'.url>> \o list)[Len(list) + 1]}
                              ELSE {} ]_vars

\* an admission into a full cache of two or more keys evicted one key and
\* kept the others
C13_Witness ==
  /\ out.op = "set" /\ out.ret
  /\ out.evicted # {}
  /\ maxSize >= 2 /\ Len(list) = maxSize
  /\ list[1] = out.url

\* C15: with capacity 0 every Set returns true, a repeated Set of the same
\* key included, and Size() is 0 after every call
C15_ZeroCapacityAlwaysAdmits ==
  maxSize = 0 =>
    /\ out.op = "set" => out.ret
    /\ out.op = "size" => out.n = 0
    /\ Size(TheCache) = 0
    /\ \A u \in Urls : Set(TheCache, u).ret

\* a cache of capacity 0 admitted a key and dropped it at once
C15_Witness ==
  /\ maxSize = 0
  /\ out.op = "set" /\ out.ret
  /\ out.evicted = {out.url}

\* C16: Clear() resets the cache to empty: afterwards Size() is 0 and every
\* key, those present before the Clear included, is admitted again, with the
\* capacity and the FIFO behaviour those of a newly made cache
C16_ClearResets ==
  [][ out'.op = "clear" =>
        LET c == [cache |-> cache', list |-> list', maxSize |-> maxSize']
        IN  /\ Size(c) = 0
            /\ \A u \in Urls : Set(c, u).ret
            /\ maxSize' = maxSize
            /\ c = NewFIFOCache(maxSize) ]_vars

\* a Clear emptied a cache that held keys
C16_Witness ==
  /\ out.op = "clear"
  /\ out.dropped # {}
  /\ cache = {}

\* ------------------------------------------------- fetch loop properties
\* C3 as stated: over any number of poll cycles each resolved segment URI is
\* downloaded and appended to the store at most once, however many segments
\* the manifests list.
C3_EachUriAtMostOnce ==
  \A u \in DOMAIN requests : requests[u] <= 1 /\ Count(appended, u) <= 1

\* C3 (amended): a resolved segment URI is downloaded, and appended, at most
\* once for each time it enters the dedup cache: it is downloaded again
\* only after the cache has evicted it.
C3_OncePerCacheResidence ==
  \A u \in DOMAIN requests :
    /\ requests[u] <= 1 + Count(evictions, u)
    /\ Count(appended, u) <= requests[u]

\* in a later poll a URI that was downloaded and stored once was announced
\* again and refused by the cache
C3_Witness ==
  /\ out.op = "set" /\ out.ret = FALSE
  /\ polls >= 2
  /\ Count(requests, out.url) = 1
  /\ Count(appended, out.url) = 1
  /\ Count(evictions, out.url) = 0

\* C19: when the document fetched at the current URI is a master manifest
\* with at least one variant, the next fetch goes to the first listed
\* variant's URI resolved against the current URI; the loop fetches at its
\* current URI only, and that URI changes to nothing but a first-listed
\* variant (or the source, when the loop starts), so no other listed variant
\* is fetched
C19_MasterGoesToFirstVariant ==
  [][ /\ (polls' # polls) => (out'.url = mainurl)
      /\ (polls' # polls /\ out.op = "manifest" /\ out.kind = "master"
             /\ Len(out.Variants) > 0)
           => (out'.url = Parse(out.url, out.Variants[1]))
      /\ (polls' # polls /\ out'.kind = "master" /\ Len(out'.Variants) > 0)
           => (pc' = "fetch")
      /\ (mainurl' # mainurl)
           => \/ (mainurl' = SourceUrl /\ pc \in {"idle", "exited"})
              \/ (mainurl' = NoUrl /\ pc' = "exited")
              \/ (polls' # polls /\ out'.kind = "master" /\ Len(out'.Variants) > 0
                    /\ mainurl' = Parse(mainurl, out'.Variants[1])) ]_vars

\* a master manifest listing two different variants was fetched and the loop
\* stands before its next fetch, at the first variant's URI
C19_Witness ==
  /\ out.op = "manifest" /\ out.kind = "master"
  /\ Len(out.Variants) = 2
  /\ Parse(out.url, out.Variants[1]) # Parse(out.url, out.Variants[2])
  /\ pc = "fetch" /\ polls < MaxPolls
  /\ mainurl = Parse(out.url, out.Variants[1])

\* C20: when a manifest fetch fails or the fetched bytes fail to parse, the
\* loop sleeps and fetches the same current URI again: the current URI (one
\* reached through a master manifest included), the dedup cache and the
\* store are as before the attempt, and the loop goes round instead of
\* returning
C20_FailureRetriesSameUri ==
  [][ /\ (polls' # polls /\ out'.kind \in {"fail", "garbage"})
           => /\ mainurl' = mainurl
              /\ cacheVars' = cacheVars
              /\ storeVars' = storeVars
              /\ running' = running
              /\ pc' = "loop"
      /\ (pc = "loop" /\ pc' # pc /\ running)
           => (pc' = "fetch" /\ mainurl' = mainurl)
      /\ (polls' # polls) => (out'.url = mainurl /\ pc = "fetch") ]_vars

\* after a failed fetch at a variant's URI the loop has gone round and
\* stands before the retry, at that same URI
C20_Witness ==
  /\ out.op = "manifest" /\ out.kind \in {"fail", "garbage"}
  /\ out.url # SourceUrl
  /\ mainurl = out.url
  /\ running /\ pc = "fetch"

\* C21: once the fetch loop has decoded a media manifest at URI u, every
\* later manifest fetch it makes is to u, whatever the later responses at u
\* contain
C21_SteadyUriFixed ==
  [][ (steady # NoUrl /\ steady' # NoUrl) => (mainurl' = steady) ]_vars

\* C22: if fetches eventually succeed and the source URI leads through a
\* finite chain of master manifests, each listing at least one variant, to a
\* media manifest, the fetch loop eventually polls that media manifest,
\* however long the chain
C22_ChainResolved ==
  <>(out.op = "manifest" /\ out.kind = "media" /\ out.url = ChainUrl(MaxChain))

\* the media playlist at the end of the chain has been polled and its
\* segments are being processed
C22_Witness ==
  /\ steady = ChainUrl(MaxChain)
  /\ mainurl = ChainUrl(MaxChain)
  /\ MaxChain >= 2
  /\ pc = "segment"

\* C23: when the download of an admitted segment fails, no blob and no store
\* record are created for it, and that segment URI is never fetched again in
\* any later poll cycle, even if the manifest keeps announcing it
C23_FailedSegmentNeverRefetched ==
  [][ /\ (failed' # failed) => (files' = files /\ db' = db /\ appended' = appended)
      /\ (requests' # requests) => (fetchurl \notin failed) ]_vars

\* C23 (amended): a failed download creates no blob and no record, and the
\* URI is not fetched again while the dedup cache holds it: every later GET
\* of a URI whose download failed follows an eviction of that URI
C23_FailedSegmentDroppedWhileCached ==
  [][ /\ (failed' # failed) =>
           /\ files' = files /\ db' = db /\ appended' = appended
           /\ pc' = "segment" /\ idx' = idx + 1
      /\ (requests' # requests /\ fetchurl \in failed) =>
           (requests[fetchurl] <= Count(evictions, fetchurl)) ]_vars

\* a URI whose download failed is announced again while the cache holds it
\* and is refused
C23_Witness ==
  /\ out.op = "set" /\ out.ret = FALSE
  /\ out.url \in failed
  /\ requests[out.url] = 1
  /\ Count(appended, out.url) = 0

\* C24: processSegments appends a store record for a segment only after its
\* URI was admitted by the dedup cache, its bytes were downloaded and its
\* blob was written: the blob write precedes the append, and a failed blob
\* write results in no record
C24_AppendAfterAdmitDownloadWrite ==
  [][ /\ (assigned' # assigned) =>
           /\ pc = "store"
           /\ item.Name \in files
           /\ Count(requests, fetchurl) >= 1
           /\ fetchurl \notin failed \/ Count(requests, fetchurl) >= 2
           /\ fetchurl \in cache \/ Count(evictions, fetchurl) >= 1
           /\ db'[itob(item.T)].Name = item.Name
      /\ (pc = "write" /\ files' = files /\ pc' # pc) =>
           (pc' = "segment" /\ db' = db /\ assigned' = assigned /\ item' = NoItem)
      /\ \A r \in {db'[k] : k \in DOMAIN db'} : r.Name \in files' ]_vars

\* one segment has been appended, and another was downloaded, its blob
\* write failed, and it has no record
C24_Witness ==
  /\ pc = "segment" /\ fetchurl = NoUrl
  /\ \E u \in DOMAIN requests : Count(appended, u) = 1
  /\ \E v \in DOMAIN requests : v \notin failed /\ Count(appended, v) = 0
  /\ \A r \in {db[k] : k \in DOMAIN db} : r.Name \in files

\* C33: every segment URI the fetch loop offers to the cache, admits and
\* downloads is the segment reference resolved against the media manifest's
\* URI and carries exactly that manifest URI's query string; a query string
\* on the reference itself is discarded
C33_SegmentUriCarriesManifestQuery ==
  [][ /\ (pc = "segment" /\ (idx' # idx \/ pc' # pc) /\ idx <= Len(playlist)) =>
           (~playlist[idx].nil =>
              LET ref == playlist[idx].URI
              IN  /\ out'.op = "set"
                  /\ out'.url.file = ref.file
                  /\ out'.url.dir = (IF ref.abs THEN ref.dir ELSE mainurl.dir)
                  /\ out'.url.query = mainurl.query
                  /\ (pc' = "download") => (fetchurl' = out'.url))
      /\ (requests' # requests) =>
           /\ fetchurl.query = mainurl.query
           /\ fetchurl.file = playlist[idx].URI.file
           /\ requests' = AddAll(requests, {fetchurl}) ]_vars

\* a segment whose reference has a query of its own was admitted and is
\* about to be downloaded, under the manifest URI's query
C33_Witness ==
  /\ pc = "download"
  /\ playlist[idx].URI.query # ""
  /\ mainurl.query # playlist[idx].URI.query
  /\ fetchurl.query = mainurl.query

\* C34: within one poll cycle the segment entries are processed in manifest
\* order; a null entry, a failed download or a failed blob write is skipped
\* without aborting the cycle: the loop goes to the next entry of the same
\* manifest, leaves the manifest only after its last entry, and offers every
\* non-null entry it comes to to the dedup cache
C34_SkipsDoNotAbortCycle ==
  [][ /\ (idx' # idx /\ pc \in {"segment", "download", "write", "store"}) =>
           \/ (idx' = idx + 1 /\ idx <= Len(playlist) /\ playlist' = playlist
                 /\ pc' = "segment")
           \/ (idx' = 0 /\ idx = Len(playlist) + 1 /\ pc = "segment")
      /\ (playlist' # playlist /\ playlist # <<>>) => (idx = Len(playlist) + 1)
      /\ (pc = "segment" /\ (idx' # idx \/ pc' # pc) /\ idx <= Len(playlist)) =>
           \/ playlist[idx].nil /\ cacheVars' = cacheVars
           \/ /\ ~playlist[idx].nil
              /\ out' = [op |-> "set", url |-> SegmentUrl(mainurl, playlist[idx].URI),
                          ret |-> SegmentUrl(mainurl, playlist[idx].URI) \notin cache] ]_vars

\* in one poll cycle the first entry's download failed and the second entry
\* was offered to the cache and admitted
C34_Witness ==
  /\ pc = "download" /\ idx = 2
  /\ Cardinality(failed) = 1
  /\ Cardinality(DOMAIN requests) = 1
  /\ out.op = "set" /\ out.ret /\ out.url \notin failed

\* C35: in the legacy fetcher() loop a store record is created for an
\* admitted segment only if its bytes were downloaded and written to the
\* blob directory; an admitted segment whose download fails leaves no record
C35_LegacyRecordOnlyAfterDownload ==
  (out.op = "blob" /\ ~out.written) =>
    (\A k \in DOMAIN db : db[k].Name # out.name)

\* C37: after Stop() is called and Start() is not called again the fetch
\* loop eventually exits, also when it is in the middle of following
\* master-manifest redirections
C37_StopLeadsToExit ==
  (~running /\ pc \notin {"idle", "exited"}) ~> (pc = "exited")

\* C38: for any sequence of Start() and Stop() calls on one HLSProcessor
\* at most one fetchLoop is executing at any time
C38_AtMostOneFetchLoop == loops <= 1

\* C40: the cache_size reported by /api/stats equals the number of segment
\* URIs held in the dedup cache into which the running HLSProcessor's fetch
\* loop admits segments
C40_StatsReportProcessorCache ==
  (out.op = "stats") => (out.cache_size = Size(TheCache))

\* C27: if the transaction inside database_store fails, the failure is
\* surfaced to the caller rather than silently ignored, so the fetch loop
\* never treats a segment as stored when no record was persisted
C27_StoreFailureSurfaced ==
  (out.op = "append" /\ ~out.persisted) => out.reported

\* ------------------------------------------- properties of concurrent callers
\* the callers whose Set(k) has returned true
Admitted(k) ==
  {i \in Callers : callers[i].pc = "done" /\ callers[i].op = "set"
                     /\ callers[i].key = k /\ callers[i].ret}

\* the callers that called Set(k)
SetCallers(k) == {i \in Callers : callers[i].op = "set" /\ callers[i].key = k}

\* C11: Set never returns true twice for the same key unless the key was
\* evicted, or the cache cleared, between the two calls: the calls that
\* returned true for a key number at most one more than the times the cache
\* dropped that key
C11_NoSecondTrueWithoutEviction ==
  \A k \in CallerUrls : Cardinality(Admitted(k)) <= 1 + Count(evictions, k)

\* Set returned true twice for one key (the cache dropped it in between)
C11_Witness == \E k \in CallerUrls : Cardinality(Admitted(k)) = 2

\* no goroutine is inside the body of Set or Clear
NoWriterInside ==
  \A i \in Callers : callers[i].pc \notin {"lookup", "insert", "evict", "clear"}

\* C12: for a cache of capacity K, Size() <= K holds after every completed
\* Set or Clear, whatever the calls and however the callers interleave:
\* every Size() call returns at most K, and the map holds at most K keys
\* whenever no Set or Clear is in progress
C12_SizeWithinCapacity ==
  /\ \A i \in Callers :
       callers[i].pc = "done" /\ callers[i].op = "size" => callers[i].n <= maxSize
  /\ NoWriterInside => Size(TheCache) <= maxSize

\* a Size() waits at the mutex while a Set holds K + 1 keys, its eviction
\* loop still to run, and an earlier Size() returned at most K
C12_Witness ==
  /\ \E i \in Callers : callers[i].pc = "evict" /\ Size(TheCache) > maxSize
  /\ \E i \in Callers : callers[i].pc = "rlock"
  /\ \E i \in Callers :
       callers[i].pc = "done" /\ callers[i].op = "size" /\ callers[i].n <= maxSize

\* C14: when several callers call Set with the same key, absent from the
\* cache, and the key is not evicted in between, exactly one of them gets
\* true and all others get false
C14_ExactlyOneAdmitted ==
  \A k \in CallerUrls :
    ( /\ Cardinality(SetCallers(k)) >= 2
      /\ \A i \in SetCallers(k) : callers[i].pc = "done"
      /\ Count(evictions, k) = 0 )
    => Cardinality(Admitted(k)) = 1

\* two overlapping Set calls on one absent key have both returned
C14_Witness ==
  \E k \in CallerUrls :
    /\ Cardinality(SetCallers(k)) >= 2
    /\ \A i \in SetCallers(k) : callers[i].pc = "done"
    /\ k \in raced
    /\ Count(evictions, k) = 0
    /\ Cardinality(Admitted(k)) = 1

====
